---- MODULE Spec2Model ----
(***************************************************************************)
(* The hierarchy parser of the ELS pipeline (src/src/els_pipeline/parser.py)*)
(* as a state machine: one call of parse_hierarchy, taken step by step.     *)
(*                                                                         *)
(* Python lists are TLA+ sequences, so Python index i is index i + 1 here;  *)
(* ranks of levels (the keys of normalize_hierarchy_mapping) stay 0-based.  *)
(* Strings are TLC strings: \o concatenates them and Len gives the length.  *)
(***************************************************************************)
EXTENDS Integers, Sequences, FiniteSets, TLC

VARIABLES
    elements,                 \* argument: the detected elements, in document order
    country,                  \* argument
    state,                    \* argument
    version_year,             \* argument
    pc,                       \* position in parse_hierarchy
    valid_elements,           \* local, parser.py:305
    elements_with_canonical,  \* local, parser.py:320
    idx,                      \* position of the for loop of parser.py:365
    current_domain,           \* local, parser.py:359
    current_strand,           \* local, parser.py:360
    current_sub_strand,       \* local, parser.py:361
    standards,                \* local, parser.py:354
    orphaned,                 \* local, parser.py:355
    result,                   \* the ParseResult returned
    id_inputs,                \* two argument tuples of generate_standard_id
    id_outputs,               \* what generate_standard_id returned for them
    other,                    \* the frame of a second call, while it is not running
    interleaved               \* the two calls were switched in mid-run

vars == <<elements, country, state, version_year, pc, valid_elements,
          elements_with_canonical, idx, current_domain, current_strand,
          current_sub_strand, standards, orphaned, result, id_inputs,
          id_outputs, other, interleaved>>

locals == <<valid_elements, elements_with_canonical, idx, current_domain,
            current_strand, current_sub_strand, standards, orphaned>>

args == <<elements, country, state, version_year>>

\* The direct calls of generate_standard_id, which parse_hierarchy leaves alone.
calls == <<id_inputs, id_outputs>>

\* The second call of parse_hierarchy, which a step of the running call leaves
\* alone.
threads == <<other, interleaved>>

----
(* Bounds of the inputs. *)

\* Longest input whose codes and needs_review flags are all chosen freely.
MaxLen == 3

\* Longest input; those longer than MaxLen have pairwise distinct codes and no
\* needs_review flag.
MaxDeepLen == 6

\* Longest input whose levels are drawn from five labels.
MaxRawLen == 5

----
(* models.py *)

DOMAIN_ == "domain"
STRAND == "strand"
SUB_STRAND == "sub_strand"
INDICATOR == "indicator"

HierarchyLevelEnum == {DOMAIN_, STRAND, SUB_STRAND, INDICATOR}

SUCCESS == "success"
ERROR == "error"

\* Python's None. A record, so that it compares with records and is FALSE
\* against every element, tier and result.
None == [none |-> TRUE]

\* Python's None in a field that otherwise holds a str (ParseResult.error):
\* a value that is none of the messages.
NoneStr == "<None>"

DetectedElement(level, code, title, description, needs_review) ==
    [level |-> level, code |-> code, title |-> title,
     description |-> description, needs_review |-> needs_review]

HierarchyLevel(code, name, description) ==
    [code |-> code, name |-> name, description |-> description]

UpperCase == {"A", "B", "C", "D", "E", "F", "G", "H", "I", "J", "K", "L", "M",
              "N", "O", "P", "Q", "R", "S", "T", "U", "V", "W", "X", "Y", "Z"}

TwoUpperCase == {a \o b : a \in UpperCase, b \in UpperCase}

\* re.match(r'^[A-Z]{2}$', v): two upper-case letters, and $ also matches
\* before one trailing newline.
validate_country_code(v) ==
    \/ Len(v) = 2 /\ v \in TwoUpperCase
    \/ Len(v) = 3 /\ v \in {p \o "\n" : p \in TwoUpperCase}

ParseResult(sts, inds, orph, status, error) ==
    [standards |-> sts, indicators |-> inds, orphaned_elements |-> orph,
     status |-> status, error |-> error]

\* standard.model_dump(): the record as a plain dict, field for field.
model_dump(standard) ==
    [f \in DOMAIN standard |-> standard[f]]

----
(* parser.py: the pure functions *)

detect_hierarchy_depth(es) ==
    Cardinality({es[i].level : i \in DOMAIN es})

\* Mutant: a 3-level document's middle label is mapped to SUB_STRAND.
normalize_hierarchy_mapping_middle(depth) ==
    IF depth = 2 THEN (0 :> DOMAIN_ @@ 1 :> INDICATOR)
    ELSE IF depth = 3 THEN (0 :> DOMAIN_ @@ 1 :> SUB_STRAND @@ 2 :> INDICATOR)
    ELSE (0 :> DOMAIN_ @@ 1 :> STRAND @@ 2 :> SUB_STRAND @@ 3 :> INDICATOR)

\* Mutant: the two tiers of a 2-level document are swapped.
normalize_hierarchy_mapping_swapped(depth) ==
    IF depth = 2 THEN (0 :> INDICATOR @@ 1 :> DOMAIN_)
    ELSE IF depth = 3 THEN (0 :> DOMAIN_ @@ 1 :> STRAND @@ 2 :> INDICATOR)
    ELSE (0 :> DOMAIN_ @@ 1 :> STRAND @@ 2 :> SUB_STRAND @@ 3 :> INDICATOR)

\* Mutant: the label of a 1-level document is mapped to INDICATOR.
normalize_hierarchy_mapping_single_leaf(depth) ==
    IF depth = 1 THEN (0 :> INDICATOR)
    ELSE IF depth = 2 THEN (0 :> DOMAIN_ @@ 1 :> INDICATOR)
    ELSE IF depth = 3 THEN (0 :> DOMAIN_ @@ 1 :> STRAND @@ 2 :> INDICATOR)
    ELSE (0 :> DOMAIN_ @@ 1 :> STRAND @@ 2 :> SUB_STRAND @@ 3 :> INDICATOR)

\* Mutant: a 2-level document gets the first two tiers of the 4-level mapping.
normalize_hierarchy_mapping_no_leaf(depth) ==
    IF depth = 2 THEN (0 :> DOMAIN_ @@ 1 :> STRAND)
    ELSE IF depth = 3 THEN (0 :> DOMAIN_ @@ 1 :> STRAND @@ 2 :> INDICATOR)
    ELSE (0 :> DOMAIN_ @@ 1 :> STRAND @@ 2 :> SUB_STRAND @@ 3 :> INDICATOR)

\* Mutant: with more than 4 levels every rank from 3 on is mapped to INDICATOR.
normalize_hierarchy_mapping_leaf_beyond(depth) ==
    IF depth = 2 THEN (0 :> DOMAIN_ @@ 1 :> INDICATOR)
    ELSE IF depth = 3 THEN (0 :> DOMAIN_ @@ 1 :> STRAND @@ 2 :> INDICATOR)
    ELSE IF depth <= 4
    THEN (0 :> DOMAIN_ @@ 1 :> STRAND @@ 2 :> SUB_STRAND @@ 3 :> INDICATOR)
    ELSE [r \in 0..(depth - 1) |->
            IF r = 0 THEN DOMAIN_ ELSE IF r = 1 THEN STRAND
            ELSE IF r = 2 THEN SUB_STRAND ELSE INDICATOR]

normalize_hierarchy_mapping(depth) ==
    IF depth = 2 THEN (0 :> DOMAIN_ @@ 1 :> INDICATOR)
    ELSE IF depth = 3 THEN (0 :> DOMAIN_ @@ 1 :> STRAND @@ 2 :> INDICATOR)
    ELSE (0 :> DOMAIN_ @@ 1 :> STRAND @@ 2 :> SUB_STRAND @@ 3 :> INDICATOR)

\* dict.get(key) is truthy: the key is present (every value is a non-empty
\* str member of HierarchyLevelEnum, which is truthy).
Has(dict, key) == key \in DOMAIN dict

\* first_appearance[level]: the index of the first element with that level.
first_appearance(es) ==
    [l \in {es[i].level : i \in DOMAIN es} |->
        CHOOSE i \in DOMAIN es :
            /\ es[i].level = l
            /\ \A j \in DOMAIN es : es[j].level = l => i <= j]

\* The place of a label in the declaration order of HierarchyLevelEnum.
EnumOrder(l) ==
    CASE l = DOMAIN_ -> 0 [] l = STRAND -> 1 [] l = SUB_STRAND -> 2 [] l = INDICATOR -> 3

\* Mutant: the labels are sorted by what they say, not by first appearance.
present_levels_by_meaning(es) ==
    LET ls == {es[i].level : i \in DOMAIN es}
    IN  [r \in 0..(Cardinality(ls) - 1) |->
            CHOOSE l \in ls :
                Cardinality({m \in ls : EnumOrder(m) < EnumOrder(l)}) = r]

\* sorted(first_appearance.keys(), key=first_appearance[level]), as a function
\* of the 0-based rank.
present_levels(es) ==
    LET fa == first_appearance(es)
    IN  [r \in 0..(Cardinality(DOMAIN fa) - 1) |->
            CHOOSE l \in DOMAIN fa :
                Cardinality({m \in DOMAIN fa : fa[m] < fa[l]}) = r]

original_to_canonical(es) ==
    LET pl == present_levels(es)
        mapping == normalize_hierarchy_mapping(Cardinality(DOMAIN pl))
        mapped == {r \in DOMAIN pl : Has(mapping, r)}
    IN  [l \in {pl[r] : r \in mapped} |->
            mapping[CHOOSE r \in mapped : pl[r] = l]]

\* Mutant: the tagged elements are listed last first.
RECURSIVE TagAll_reversed(_, _)
TagAll_reversed(es, o2c) ==
    IF es = <<>> THEN <<>>
    ELSE TagAll_reversed(Tail(es), o2c)
         \o (IF Has(o2c, Head(es).level)
             THEN <<[element |-> Head(es), canonical_level |-> o2c[Head(es).level]]>>
             ELSE <<>>)

RECURSIVE TagAll(_, _)
TagAll(es, o2c) ==
    IF es = <<>> THEN <<>>
    ELSE (IF Has(o2c, Head(es).level)
          THEN <<[element |-> Head(es), canonical_level |-> o2c[Head(es).level]]>>
          ELSE <<>>) \o TagAll(Tail(es), o2c)

assign_canonical_levels(es) ==
    TagAll(es, original_to_canonical(es))

\* Mutant: the domain code and the indicator code change places.
generate_standard_id_swapped(c, s, year, domain_code, indicator_code) ==
    c \o "-" \o s \o "-" \o ToString(year) \o "-" \o indicator_code
      \o "-" \o domain_code

\* Mutant: the state is left out of the identifier.
generate_standard_id_no_state(c, s, year, domain_code, indicator_code) ==
    c \o "-" \o ToString(year) \o "-" \o domain_code \o "-" \o indicator_code

generate_standard_id(c, s, year, domain_code, indicator_code) ==
    c \o "-" \o s \o "-" \o ToString(year) \o "-" \o domain_code
      \o "-" \o indicator_code

\* by_canonical.get(level, []) after the grouping loop of parser.py:326.
by_canonical(ewc, level) ==
    SelectSeq(ewc, LAMBDA t : t.canonical_level = level)

\* The optional tiers of parser.py:392-406.
OptionalLevel(current) ==
    IF current # None
    THEN HierarchyLevel(current.code, current.title, None)
    ELSE None

\* Mutant: the domain tier is built from the indicator element.
BuildStandard_from_element(element, cd, cs, css, c, s, year) ==
    [standard_id |-> generate_standard_id(c, s, year, cd.code, element.code),
     country |-> c,
     state |-> s,
     version_year |-> year,
     domain |-> HierarchyLevel(element.code, element.title, None),
     strand |-> OptionalLevel(cs),
     sub_strand |-> OptionalLevel(css),
     indicator |-> HierarchyLevel(element.code, element.title, element.description)]

\* parser.py:386-431, when the NormalizedStandard is accepted by its validator.
BuildStandard(element, cd, cs, css, c, s, year) ==
    [standard_id |-> generate_standard_id(c, s, year, cd.code, element.code),
     country |-> c,
     state |-> s,
     version_year |-> year,
     domain |-> HierarchyLevel(cd.code, cd.title, None),
     strand |-> OptionalLevel(cs),
     sub_strand |-> OptionalLevel(css),
     indicator |-> HierarchyLevel(element.code, element.title, element.description)]

----
(* The inputs *)

Codes == {"A", "A-A"}
Countries == {"US", "us"}
States == {"CA"}
Years == {2021}

TitleAt(i) == "t" \o ToString(i)
DescriptionAt(i) == "d" \o ToString(i)
CodeAt(i) == "c" \o ToString(i)

\* Every field but title and description is free; titles are pairwise distinct.
FreeInput(n, l, c, r) ==
    [i \in 1..n |-> DetectedElement(l[i], c[i], TitleAt(i), DescriptionAt(i), r[i])]

\* Longer documents: the levels are free, the codes are pairwise distinct.
DeepInput(n, l) ==
    [i \in 1..n |-> DetectedElement(l[i], CodeAt(i), TitleAt(i), DescriptionAt(i), FALSE)]

Init ==
    /\ \/ \E n \in 0..MaxLen :
             \E l \in [1..n -> HierarchyLevelEnum], c \in [1..n -> Codes],
                r \in [1..n -> BOOLEAN] :
                 elements = FreeInput(n, l, c, r)
       \/ \E n \in (MaxLen + 1)..MaxDeepLen :
             \E l \in [1..n -> HierarchyLevelEnum] :
                 elements = DeepInput(n, l)
    /\ country \in Countries
    /\ state \in States
    /\ version_year \in Years
    /\ pc = "filter"
    /\ valid_elements = <<>>
    /\ elements_with_canonical = <<>>
    /\ idx = 1
    /\ current_domain = None
    /\ current_strand = None
    /\ current_sub_strand = None
    /\ standards = <<>>
    /\ orphaned = <<>>
    /\ result = None
    /\ id_inputs = <<>>
    /\ id_outputs = <<>>
    /\ other = None
    /\ interleaved = FALSE

----
(* parse_hierarchy *)

Return(r) ==
    /\ result' = r
    /\ pc' = "done"

\* The suffixes by which one code of Codes extends another.
CodeTails == {"", "-A"}

\* str.startswith, on the codes of the inputs.
StartsWith(s, prefix) ==
    \E t \in CodeTails : s = prefix \o t

\* Mutant: no filtering, the elements flagged for review are parsed too.
valid_filter_keeps_all(es) == es

\* parser.py:305
valid_filter(es) ==
    SelectSeq(es, LAMBDA e : ~e.needs_review)

\* Mutant: the filtered (empty) list is returned as orphaned.
NoValidElements_filtered(es, valid) ==
    ParseResult(<<>>, <<>>, valid, ERROR,
                "No valid elements to parse (all flagged for review)")

\* parser.py:308-314
NoValidElements(es, valid) ==
    ParseResult(<<>>, <<>>, es, ERROR,
                "No valid elements to parse (all flagged for review)")

\* parser.py:336-342
NoDomains(es, valid) ==
    ParseResult(<<>>, <<>>, valid, ERROR, "No domain elements found")

\* Mutant: the unfiltered input is returned as orphaned.
NoIndicators_unfiltered(es, valid) ==
    ParseResult(<<>>, <<>>, es, ERROR, "No indicator elements found")

\* parser.py:345-351
NoIndicators(es, valid) ==
    ParseResult(<<>>, <<>>, valid, ERROR, "No indicator elements found")

\* Mutant: the check for indicators is missing.
Missing_never(seq) == FALSE

\* `not domains`, `not indicators` (parser.py:335, 344): the list is empty.
Missing(seq) == seq = <<>>

\* str(e) of the error NormalizedStandard raises for a country it rejects
\* (models.py:134).
CountryError(v) ==
    "country must be a two-letter uppercase ISO 3166-1 alpha-2 code, got: " \o v

\* Mutant: the filtered list is returned as orphaned.
ParsingFailed_filtered(es, valid, e) ==
    ParseResult(<<>>, <<>>, valid, ERROR, "Parsing failed: " \o e)

\* parser.py:443-450
ParsingFailed(es, valid, e) ==
    ParseResult(<<>>, <<>>, es, ERROR, "Parsing failed: " \o e)

\* Mutant: no try/except, the exception leaves parse_hierarchy.
Except_propagates(e) ==
    /\ pc' = "raised"
    /\ UNCHANGED result

\* The try of parser.py:303 with its except of parser.py:443-450, for an
\* exception whose str is e.
Except(e) ==
    Return(ParsingFailed(elements, valid_elements, e))

\* Mutant: an indicator whose code does not extend its domain's is orphaned.
Unanchored_by_code(e, cd) ==
    \/ cd = None
    \/ ~StartsWith(e.code, cd.code)

\* `not current_domain` (parser.py:381); a DetectedElement is always truthy.
Unanchored(e, cd) == cd = None

\* parser.py:305-314
Filter ==
    /\ pc = "filter"
    /\ LET valid == valid_filter(elements)
       IN  /\ valid_elements' = valid
           /\ IF valid = <<>>
              THEN Return(NoValidElements(elements, valid))
              ELSE pc' = "classify" /\ UNCHANGED result
    /\ UNCHANGED <<calls, threads, args, elements_with_canonical, idx, current_domain,
                   current_strand, current_sub_strand, standards, orphaned>>

\* parser.py:317-361
Classify ==
    /\ pc = "classify"
    /\ LET ewc == assign_canonical_levels(valid_elements)
       IN  /\ elements_with_canonical' = ewc
           /\ IF Missing(by_canonical(ewc, DOMAIN_))
              THEN Return(NoDomains(elements, valid_elements))
              ELSE IF Missing(by_canonical(ewc, INDICATOR))
              THEN Return(NoIndicators(elements, valid_elements))
              ELSE pc' = "loop" /\ UNCHANGED result
    /\ idx' = 1
    /\ standards' = <<>>
    /\ orphaned' = <<>>
    /\ current_domain' = None
    /\ current_strand' = None
    /\ current_sub_strand' = None
    /\ UNCHANGED <<calls, threads, args, valid_elements>>

InLoop(level) ==
    /\ pc = "loop"
    /\ idx <= Len(elements_with_canonical)
    /\ elements_with_canonical[idx].canonical_level = level

element == elements_with_canonical[idx].element

\* Mutant: a new domain keeps the strand and sub-strand of the previous one.
OnDomain_keeps_context ==
    /\ InLoop(DOMAIN_)
    /\ current_domain' = element
    /\ idx' = idx + 1
    /\ UNCHANGED <<calls, threads, args, pc, valid_elements, elements_with_canonical,
                   current_strand, current_sub_strand, standards, orphaned, result>>

\* parser.py:366-369
OnDomain ==
    /\ InLoop(DOMAIN_)
    /\ current_domain' = element
    /\ current_strand' = None
    /\ current_sub_strand' = None
    /\ idx' = idx + 1
    /\ UNCHANGED <<calls, threads, args, pc, valid_elements, elements_with_canonical,
                   standards, orphaned, result>>

\* Mutant: a new strand keeps the sub-strand of the previous one.
OnStrand_keeps_sub_strand ==
    /\ InLoop(STRAND)
    /\ current_strand' = element
    /\ idx' = idx + 1
    /\ UNCHANGED <<calls, threads, args, pc, valid_elements, elements_with_canonical,
                   current_domain, current_sub_strand, standards, orphaned, result>>

\* Mutant: a strand element is reported as orphaned too.
OnStrand_orphans ==
    /\ InLoop(STRAND)
    /\ current_strand' = element
    /\ current_sub_strand' = None
    /\ orphaned' = Append(orphaned, element)
    /\ idx' = idx + 1
    /\ UNCHANGED <<calls, threads, args, pc, valid_elements, elements_with_canonical,
                   current_domain, standards, result>>

\* parser.py:370-372
OnStrand ==
    /\ InLoop(STRAND)
    /\ current_strand' = element
    /\ current_sub_strand' = None
    /\ idx' = idx + 1
    /\ UNCHANGED <<calls, threads, args, pc, valid_elements, elements_with_canonical,
                   current_domain, standards, orphaned, result>>

\* Mutant: a sub-strand element is stored in the strand slot.
OnSubStrand_sets_strand ==
    /\ InLoop(SUB_STRAND)
    /\ current_strand' = element
    /\ idx' = idx + 1
    /\ UNCHANGED <<calls, threads, args, pc, valid_elements, elements_with_canonical,
                   current_domain, current_sub_strand, standards, orphaned, result>>

\* parser.py:373-374
OnSubStrand ==
    /\ InLoop(SUB_STRAND)
    /\ current_sub_strand' = element
    /\ idx' = idx + 1
    /\ UNCHANGED <<calls, threads, args, pc, valid_elements, elements_with_canonical,
                   current_domain, current_strand, standards, orphaned, result>>

\* parser.py:375-433, and 443-450 when NormalizedStandard(...) raises
OnIndicator ==
    /\ InLoop(INDICATOR)
    /\ IF Unanchored(element, current_domain)
       THEN /\ orphaned' = Append(orphaned, element)
            /\ idx' = idx + 1
            /\ UNCHANGED <<standards, pc, result>>
       ELSE IF validate_country_code(country)
       THEN /\ standards' = Append(standards,
                   BuildStandard(element, current_domain, current_strand,
                                 current_sub_strand, country, state, version_year))
            /\ idx' = idx + 1
            /\ UNCHANGED <<orphaned, pc, result>>
       ELSE /\ Except(CountryError(country))
            /\ UNCHANGED <<standards, orphaned, idx>>
    /\ UNCHANGED <<calls, threads, args, valid_elements, elements_with_canonical,
                   current_domain, current_strand, current_sub_strand>>

\* Mutant: the accepted standards are returned in a result of status error.
Finish_as_error ==
    /\ pc = "loop"
    /\ idx > Len(elements_with_canonical)
    /\ Return(ParseResult(standards,
                          [i \in DOMAIN standards |-> model_dump(standards[i])],
                          orphaned, ERROR, "Parsing failed: "))
    /\ UNCHANGED <<calls, threads, args, locals>>

\* parser.py:435-441
Finish ==
    /\ pc = "loop"
    /\ idx > Len(elements_with_canonical)
    /\ Return(ParseResult(standards,
                          [i \in DOMAIN standards |-> model_dump(standards[i])],
                          orphaned, SUCCESS, NoneStr))
    /\ UNCHANGED <<calls, threads, args, locals>>

Next ==
    \/ Filter
    \/ Classify
    \/ OnDomain
    \/ OnStrand
    \/ OnSubStrand
    \/ OnIndicator
    \/ Finish

Spec == Init /\ [][Next]_vars

----
(* generate_standard_id called directly, twice *)

IdCountries == {"US", "US-CA"}
IdStates == {"CA", "TX"}
IdYears == {2021, 2022}
IdCodes == {"A", "A-A"}

\* The strings above that hold no '-'.
DashFree == {"US", "CA", "TX", "A"}

IdArguments == IdCountries \X IdStates \X IdYears \X IdCodes \X IdCodes

InitId ==
    /\ id_inputs \in IdArguments \X IdArguments
    /\ id_outputs = <<>>
    /\ elements = <<>>
    /\ country = "US"
    /\ state = "CA"
    /\ version_year = 2021
    /\ pc = "idle"
    /\ valid_elements = <<>>
    /\ elements_with_canonical = <<>>
    /\ idx = 1
    /\ current_domain = None
    /\ current_strand = None
    /\ current_sub_strand = None
    /\ standards = <<>>
    /\ orphaned = <<>>
    /\ result = None
    /\ other = None
    /\ interleaved = FALSE

GenerateIds ==
    /\ id_outputs = <<>>
    /\ id_outputs' =
          [n \in 1..2 |->
              generate_standard_id(id_inputs[n][1], id_inputs[n][2], id_inputs[n][3],
                                   id_inputs[n][4], id_inputs[n][5])]
    /\ UNCHANGED <<id_inputs, threads, args, pc, locals, result>>

NextId == GenerateIds

SpecId == InitId /\ [][NextId]_vars

----
(* Two calls of parse_hierarchy, interleaved step by step *)

\* The documents of the two calls, by their raw levels; in the last one the
\* first fragment is flagged for review.
Documents ==
    {<<>>,
     DeepInput(2, <<DOMAIN_, INDICATOR>>),
     DeepInput(3, <<INDICATOR, INDICATOR, STRAND>>),
     DeepInput(4, <<DOMAIN_, STRAND, SUB_STRAND, INDICATOR>>),
     FreeInput(3, <<INDICATOR, STRAND, INDICATOR>>, <<"A", "A", "A-A">>,
               <<TRUE, FALSE, FALSE>>)}

\* The frame of the running call: its arguments, its locals, its position and
\* what it returned.
Frame ==
    [elements |-> elements, country |-> country, state |-> state,
     version_year |-> version_year, pc |-> pc, valid_elements |-> valid_elements,
     elements_with_canonical |-> elements_with_canonical, idx |-> idx,
     current_domain |-> current_domain, current_strand |-> current_strand,
     current_sub_strand |-> current_sub_strand, standards |-> standards,
     orphaned |-> orphaned, result |-> result]

\* The frame of a call that has not started (parser.py:281-303).
NewFrame(es, c, s, year) ==
    [elements |-> es, country |-> c, state |-> s, version_year |-> year,
     pc |-> "filter", valid_elements |-> <<>>, elements_with_canonical |-> <<>>,
     idx |-> 1, current_domain |-> None, current_strand |-> None,
     current_sub_strand |-> None, standards |-> <<>>, orphaned |-> <<>>,
     result |-> None]

MidRun(f) == f.pc \in {"classify", "loop"}

\* Mutant: current_domain is one slot shared by the two calls.
Restore_shared_domain(f) ==
    /\ elements' = f.elements
    /\ country' = f.country
    /\ state' = f.state
    /\ version_year' = f.version_year
    /\ pc' = f.pc
    /\ valid_elements' = f.valid_elements
    /\ elements_with_canonical' = f.elements_with_canonical
    /\ idx' = f.idx
    /\ current_domain' = current_domain
    /\ current_strand' = f.current_strand
    /\ current_sub_strand' = f.current_sub_strand
    /\ standards' = f.standards
    /\ orphaned' = f.orphaned
    /\ result' = f.result

\* A call goes on with its own arguments and its own locals: all of them are
\* names of the function body (parser.py:281-286, 305, 320, 354-361, 365).
Restore(f) ==
    /\ elements' = f.elements
    /\ country' = f.country
    /\ state' = f.state
    /\ version_year' = f.version_year
    /\ pc' = f.pc
    /\ valid_elements' = f.valid_elements
    /\ elements_with_canonical' = f.elements_with_canonical
    /\ idx' = f.idx
    /\ current_domain' = f.current_domain
    /\ current_strand' = f.current_strand
    /\ current_sub_strand' = f.current_sub_strand
    /\ standards' = f.standards
    /\ orphaned' = f.orphaned
    /\ result' = f.result

InitTwo ==
    /\ elements \in Documents
    /\ country \in Countries
    /\ state \in States
    /\ version_year \in Years
    /\ pc = "filter"
    /\ valid_elements = <<>>
    /\ elements_with_canonical = <<>>
    /\ idx = 1
    /\ current_domain = None
    /\ current_strand = None
    /\ current_sub_strand = None
    /\ standards = <<>>
    /\ orphaned = <<>>
    /\ result = None
    /\ id_inputs = <<>>
    /\ id_outputs = <<>>
    /\ \E es \in Documents, c \in Countries, s \in States, year \in Years :
          other = NewFrame(es, c, s, year)
    /\ interleaved = FALSE

\* The running call is suspended between two of its steps and the other call
\* goes on.
Switch ==
    /\ other # None
    /\ other' = Frame
    /\ Restore(other)
    /\ interleaved' = (interleaved \/ (MidRun(Frame) /\ MidRun(other)))
    /\ UNCHANGED calls

NextTwo ==
    \/ Filter
    \/ Classify
    \/ OnDomain
    \/ OnStrand
    \/ OnSubStrand
    \/ OnIndicator
    \/ Finish
    \/ Switch

SpecTwo == InitTwo /\ [][NextTwo]_vars

----
(* parse_hierarchy on fragments with a fifth label *)

\* The raw levels of the fragments: the members of HierarchyLevelEnum and one
\* more value. DetectedElement checks `level` when it is built from data
\* (models.py:67), not when the attribute is assigned afterwards or when the
\* object is built with model_construct, and parser.py never checks it.
RawLevels == HierarchyLevelEnum \cup {"section"}

\* Longer documents in which a fragment of the fifth label is followed by
\* fragments of the first four.
FiveLabelDocuments ==
    {DeepInput(6, <<DOMAIN_, STRAND, SUB_STRAND, INDICATOR, "section", INDICATOR>>),
     DeepInput(7, <<STRAND, "section", INDICATOR, DOMAIN_, SUB_STRAND, SUB_STRAND,
                    DOMAIN_>>),
     DeepInput(7, <<INDICATOR, SUB_STRAND, STRAND, DOMAIN_, "section", STRAND,
                    DOMAIN_>>)}

InitFive ==
    /\ \/ \E n \in 0..MaxRawLen :
             \E l \in [1..n -> RawLevels] :
                 elements = DeepInput(n, l)
       \/ elements \in FiveLabelDocuments
    /\ country \in Countries
    /\ state \in States
    /\ version_year \in Years
    /\ pc = "filter"
    /\ valid_elements = <<>>
    /\ elements_with_canonical = <<>>
    /\ idx = 1
    /\ current_domain = None
    /\ current_strand = None
    /\ current_sub_strand = None
    /\ standards = <<>>
    /\ orphaned = <<>>
    /\ result = None
    /\ id_inputs = <<>>
    /\ id_outputs = <<>>
    /\ other = None
    /\ interleaved = FALSE

SpecFive == InitFive /\ [][Next]_vars

----
(* What the properties below talk about *)

Returned == result # None

Succeeded == Returned /\ result.status = SUCCESS

\* The records of the returned standards list.
ReturnedStandards ==
    IF Returned THEN {result.standards[k] : k \in DOMAIN result.standards} ELSE {}

\* The non-review fragments of the input, by their place in the document.
NonReview == {i \in DOMAIN elements : ~elements[i].needs_review}

\* The number of distinct raw levels of the non-review fragments.
Depth == Cardinality({elements[i].level : i \in NonReview})

\* The place in the document of the fragment a tier's name was taken from
\* (titles are pairwise distinct).
PlaceOf(name) == CHOOSE i \in DOMAIN elements : elements[i].title = name

\* Fragment i is a non-review fragment tagged with tier t.
Tagged(i, t) ==
    /\ i \in NonReview
    /\ \E k \in DOMAIN elements_with_canonical :
          /\ elements_with_canonical[k].element = elements[i]
          /\ elements_with_canonical[k].canonical_level = t

Latest(S) == CHOOSE i \in S : \A j \in S : j <= i

\* The {code, name} pair an ancestor fragment contributes to a standard.
TierFrom(i) == HierarchyLevel(elements[i].code, elements[i].title, None)

\* The Domain-tagged fragments before place p, and so on.
DomainsBefore(p) == {i \in 1..(p - 1) : Tagged(i, DOMAIN_)}
StrandsSince(d, p) == {i \in (d + 1)..(p - 1) : Tagged(i, STRAND)}
AnchorsBefore(p) == {i \in 1..(p - 1) : Tagged(i, DOMAIN_) \/ Tagged(i, STRAND)}
SubStrandsSince(a, p) == {i \in (a + 1)..(p - 1) : Tagged(i, SUB_STRAND)}

----
(* C1: every record of the returned standards list has a non-null domain,   *)
(* whose code and name are those of a Domain-tagged fragment.               *)
C1_DomainNeverNull ==
    \A s \in ReturnedStandards :
        /\ s.domain # None
        /\ \E i \in DOMAIN elements :
              /\ Tagged(i, DOMAIN_)
              /\ s.domain.code = elements[i].code
              /\ s.domain.name = elements[i].title

C1_Witness ==
    /\ Succeeded
    /\ Len(result.standards) >= 2
    /\ result.standards[1].domain # result.standards[2].domain

(* C2: on every returned standard, sub_strand non-null implies strand       *)
(* non-null.                                                               *)
C2_SubStrandImpliesStrand ==
    \A s \in ReturnedStandards : s.sub_strand # None => s.strand # None

(* C3: every returned standard hangs from its nearest ancestors in document *)
(* order: the latest Domain-tagged fragment before the indicator, the       *)
(* latest Strand-tagged fragment between that domain and the indicator (or  *)
(* null), the latest SubStrand-tagged fragment after the latest preceding   *)
(* Domain- or Strand-tagged fragment (or null).                             *)
C3_NearestAncestors ==
    \A s \in ReturnedStandards :
        LET p == PlaceOf(s.indicator.name)
        IN  /\ Tagged(p, INDICATOR)
            /\ DomainsBefore(p) # {}
            /\ LET d == Latest(DomainsBefore(p))
                   strs == StrandsSince(d, p)
                   subs == SubStrandsSince(Latest(AnchorsBefore(p)), p)
               IN  /\ s.domain = TierFrom(d)
                   /\ s.strand = IF strs = {} THEN None ELSE TierFrom(Latest(strs))
                   /\ s.sub_strand = IF subs = {} THEN None ELSE TierFrom(Latest(subs))

\* A standard under the second strand and the second sub-strand of its domain.
C3_Witness ==
    /\ Succeeded
    /\ \E s \in ReturnedStandards :
          /\ s.strand # None
          /\ s.sub_strand # None
          /\ \E i \in 1..(PlaceOf(s.strand.name) - 1) : Tagged(i, STRAND)
          /\ \E i \in 1..(PlaceOf(s.strand.name) - 1) : Tagged(i, SUB_STRAND)

(* C4: a Domain-tagged fragment sets currentDomain and clears currentStrand *)
(* and currentSubStrand, and a standard whose indicator follows a Domain    *)
(* with no Strand or SubStrand fragment in between has that domain, and     *)
(* strand and sub_strand null.                                              *)
LastAncestorBefore(k) ==
    LET S == {j \in 1..(k - 1) :
                 elements_with_canonical[j].canonical_level # INDICATOR}
    IN  IF S = {} THEN 0 ELSE Latest(S)

C4_DomainClearsContext ==
    /\ pc = "loop" =>
          LET q == LastAncestorBefore(idx)
          IN  (q > 0 /\ elements_with_canonical[q].canonical_level = DOMAIN_) =>
                  /\ current_domain = elements_with_canonical[q].element
                  /\ current_strand = None
                  /\ current_sub_strand = None
    /\ \A s \in ReturnedStandards :
          \A k \in DOMAIN elements_with_canonical :
              LET q == LastAncestorBefore(k)
              IN  (/\ elements_with_canonical[k].element.title = s.indicator.name
                   /\ q > 0
                   /\ elements_with_canonical[q].canonical_level = DOMAIN_) =>
                      /\ s.domain.name = elements_with_canonical[q].element.title
                      /\ s.domain.code = elements_with_canonical[q].element.code
                      /\ s.strand = None
                      /\ s.sub_strand = None

\* Scenario [Domain A, Strand, SubStrand, Indicator, Domain B, Indicator].
C4_Witness ==
    /\ Succeeded
    /\ Len(elements) = 6
    /\ Len(result.standards) = 2
    /\ result.standards[1].strand # None
    /\ result.standards[1].sub_strand # None
    /\ result.standards[2].domain.name = elements[5].title
    /\ result.standards[2].strand = None
    /\ result.standards[2].sub_strand = None

(* C5: with exactly 2 distinct raw levels among the non-review fragments    *)
(* every returned standard has strand and sub_strand null; with exactly 3,  *)
(* sub_strand null.                                                         *)
C5_UnmappedTiersNull ==
    \A s \in ReturnedStandards :
        /\ Depth = 2 => s.strand = None /\ s.sub_strand = None
        /\ Depth = 3 => s.sub_strand = None

\* Two levels among the non-review fragments, a third on a fragment under review.
C5_Witness ==
    /\ Succeeded
    /\ Depth = 2
    /\ Cardinality({elements[i].level : i \in DOMAIN elements}) = 3
    /\ result.standards # <<>>

C7_IndicatorUnderDomainAccepted ==
    Returned =>
        \A k \in DOMAIN elements_with_canonical :
            (/\ k <= idx
             /\ elements_with_canonical[k].canonical_level = INDICATOR
             /\ \E j \in 1..(k - 1) :
                    elements_with_canonical[j].canonical_level = DOMAIN_) =>
                /\ \E s \in ReturnedStandards :
                      s.indicator.name = elements_with_canonical[k].element.title
                /\ \A o \in DOMAIN result.orphaned_elements :
                      result.orphaned_elements[o] # elements_with_canonical[k].element

(* C8: in every result the codes of the orphaned elements and the indicator *)
(* codes of the standards are disjoint.                                     *)
C8_OrphanedAndStandardsDisjoint ==
    Returned =>
        {result.orphaned_elements[o].code : o \in DOMAIN result.orphaned_elements}
            \cap {s.indicator.code : s \in ReturnedStandards} = {}

\* Two accepted indicators share the code of their domain.
C8_Witness ==
    /\ Succeeded
    /\ Len(result.standards) = 2
    /\ result.standards[1].indicator.code = result.standards[2].indicator.code
    /\ result.standards[1].indicator.code = result.standards[1].domain.code
    /\ result.orphaned_elements = <<>>

(* C9: the tier of a non-review fragment is decided by the rank r of its    *)
(* raw label in first-occurrence order and by the depth d alone: r = 0 is   *)
(* Domain; d = 2: r = 1 is Indicator; d = 3: r = 1 is Strand, r = 2 is      *)
(* Indicator; d >= 4: r = 1 is Strand, r = 2 is SubStrand, r = 3 is         *)
(* Indicator.                                                               *)
RankOf(k) ==
    LET first == CHOOSE f \in 1..k :
                     /\ valid_elements[f].level = valid_elements[k].level
                     /\ \A j \in 1..(f - 1) :
                            valid_elements[j].level # valid_elements[k].level
    IN  Cardinality({valid_elements[j].level : j \in 1..(first - 1)})

TierTable(d, r) ==
    CASE r = 0 -> DOMAIN_
      [] r = 1 -> IF d = 2 THEN INDICATOR ELSE STRAND
      [] r = 2 -> IF d = 3 THEN INDICATOR ELSE SUB_STRAND
      [] r = 3 -> INDICATOR

C9_TierByRankAndDepth ==
    pc \in {"loop", "done"} /\ valid_elements # <<>> =>
        /\ Len(elements_with_canonical) = Len(valid_elements)
        /\ \A k \in DOMAIN valid_elements :
              /\ elements_with_canonical[k].element = valid_elements[k]
              /\ elements_with_canonical[k].canonical_level
                    = TierTable(Depth, RankOf(k))

\* The first non-review fragment is labelled 'indicator', a later one 'domain'.
C9_Witness ==
    /\ Succeeded
    /\ valid_elements[1].level = INDICATOR
    /\ elements_with_canonical[1].canonical_level = DOMAIN_
    /\ \E k \in DOMAIN elements_with_canonical :
          /\ elements_with_canonical[k].element.level = DOMAIN_
          /\ elements_with_canonical[k].canonical_level = INDICATOR

(* C10: the standard_id of every returned standard is                       *)
(* "{country}-{region}-{versionYear}-{domainCode}-{indicatorCode}", built   *)
(* from the caller's country, region and year, the code of the standard's   *)
(* own domain and the code of its indicator fragment.                       *)
C10_StandardIdFormat ==
    \A s \in ReturnedStandards :
        /\ s.standard_id = country \o "-" \o state \o "-" \o ToString(version_year)
                             \o "-" \o s.domain.code \o "-" \o s.indicator.code
        /\ s.indicator.code = elements[PlaceOf(s.indicator.name)].code
        /\ DomainsBefore(PlaceOf(s.indicator.name)) # {}
        /\ s.domain.code
              = elements[Latest(DomainsBefore(PlaceOf(s.indicator.name)))].code

C10_Witness ==
    /\ Succeeded
    /\ elements[1].code = "A"
    /\ \E s \in ReturnedStandards :
          /\ s.indicator.code = "A-A"
          /\ s.standard_id = "US-CA-2021-A-A-A"

(* C11, as claimed: two argument tuples of generate_standard_id that differ *)
(* in any component give different identifiers.                             *)
C11_Injective ==
    id_outputs # <<>> =>
        (id_inputs[1] # id_inputs[2] => id_outputs[1] # id_outputs[2])

(* C11, amended: two argument tuples whose country, state and domain code   *)
(* hold no '-' and that differ in any component give different identifiers. *)
C11_InjectiveWithoutDash ==
    id_outputs # <<>> =>
        ((/\ \A n \in 1..2 : \A f \in {1, 2, 4} : id_inputs[n][f] \in DashFree
          /\ id_inputs[1] # id_inputs[2])
            => id_outputs[1] # id_outputs[2])

\* Two tuples that differ in the indicator code alone, one with a '-' in it.
C11_Witness ==
    /\ id_outputs # <<>>
    /\ id_inputs[1] = <<"US", "CA", 2021, "A", "A-A">>
    /\ id_inputs[2] = <<"US", "CA", 2021, "A", "A">>
    /\ id_outputs[1] = "US-CA-2021-A-A-A"
    /\ id_outputs[2] = "US-CA-2021-A-A"

----
(* Places of the document, read from raw levels and needs_review alone *)

\* The increasing sequence of the members of a set of places.
InOrder(S) ==
    [k \in 1..Cardinality(S) |->
        CHOOSE i \in S : Cardinality({j \in S : j < i}) = k - 1]

\* The first non-review fragment that carries the raw level of fragment i.
FirstAt(i) ==
    CHOOSE f \in NonReview :
        /\ elements[f].level = elements[i].level
        /\ \A j \in NonReview : elements[j].level = elements[i].level => f <= j

RankAt(i) ==
    Cardinality({elements[j].level : j \in {j \in NonReview : j < FirstAt(i)}})

\* The tier of each non-review fragment.
Tiers ==
    LET depth == Depth
    IN  [i \in NonReview |-> TierTable(depth, RankAt(i))]

\* The non-review fragments of tier t in a table of tiers.
Places(tiers, t) == {i \in DOMAIN tiers : tiers[i] = t}

LatestOr0(S) == IF S = {} THEN 0 ELSE Latest(S)

\* The place a tier of a standard was taken from, 0 for a null tier.
TierPlace(tier) == IF tier = None THEN 0 ELSE PlaceOf(tier.name)

\* What a result says, in places of the document.
Shape ==
    [status |-> result.status,
     accepted |->
        [k \in DOMAIN result.standards |->
            [indicator |-> TierPlace(result.standards[k].indicator),
             domain |-> TierPlace(result.standards[k].domain),
             strand |-> TierPlace(result.standards[k].strand),
             sub_strand |-> TierPlace(result.standards[k].sub_strand)]],
     orphaned |->
        [k \in DOMAIN result.orphaned_elements |->
            PlaceOf(result.orphaned_elements[k].title)]]

\* A call succeeds when some non-review fragments carry two levels or more and
\* the country is accepted.
Parses == NonReview # {} /\ Depth >= 2

----
(* C12: when every fragment has needs_review = true, or the input is empty, *)
(* the result is an error with no standards, a non-null error and the       *)
(* original input as orphaned_elements, and nothing was detected or         *)
(* assembled.                                                               *)
C12_NoUsableInput ==
    NonReview = {} =>
        /\ pc \in {"filter", "done"}
        /\ elements_with_canonical = <<>>
        /\ standards = <<>>
        /\ Returned =>
              /\ result.status = ERROR
              /\ result.standards = <<>>
              /\ result.indicators = <<>>
              /\ result.error # NoneStr
              /\ result.orphaned_elements = elements

C12_Witness ==
    /\ Returned
    /\ Len(elements) = 3
    /\ NonReview = {}
    /\ result.orphaned_elements = elements

(* C13: when the filtered sequence is non-empty and holds no Indicator-tagged*)
(* fragment, the result is the error 'No indicator elements found' with no  *)
(* standards and exactly the filtered sequence, in order, as orphaned.      *)
C13_NoIndicatorFound ==
    (/\ Returned
     /\ NonReview # {}
     /\ \A k \in DOMAIN elements_with_canonical :
            elements_with_canonical[k].canonical_level # INDICATOR) =>
        /\ result.status = ERROR
        /\ result.error = "No indicator elements found"
        /\ result.standards = <<>>
        /\ result.orphaned_elements
              = [k \in 1..Cardinality(NonReview) |-> elements[InOrder(NonReview)[k]]]

C13_Witness ==
    /\ Returned
    /\ result.error = "No indicator elements found"
    /\ Len(elements) = 3
    /\ elements[2].needs_review
    /\ Len(result.orphaned_elements) = 2

(* C14: when all non-review fragments (at least one) are labelled indicator,*)
(* no standard is returned and every one of them is in orphaned_elements.   *)
C14_IndicatorsOnlyOrphaned ==
    (/\ Returned
     /\ NonReview # {}
     /\ \A i \in NonReview : elements[i].level = INDICATOR) =>
        /\ result.standards = <<>>
        /\ \A i \in NonReview :
              \E k \in DOMAIN result.orphaned_elements :
                  result.orphaned_elements[k] = elements[i]

C14_Witness ==
    /\ Returned
    /\ Len(elements) = 2
    /\ \A i \in DOMAIN elements :
          elements[i].level = INDICATOR /\ ~elements[i].needs_review
    /\ result.orphaned_elements = elements

(* C15: the input [Domain D, Indicator I1, Indicator I2], none under review,*)
(* where I1's code starts with D's code and I2's does not.                  *)
ValidAndUnmatched ==
    /\ Len(elements) = 3
    /\ NonReview = {1, 2, 3}
    /\ elements[1].level = DOMAIN_
    /\ elements[2].level = INDICATOR
    /\ elements[3].level = INDICATOR
    /\ StartsWith(elements[2].code, elements[1].code)
    /\ ~StartsWith(elements[3].code, elements[1].code)

(* C15: for that input, with the country "US", exactly one standard is     *)
(* returned, for I1, and exactly one orphaned element, I2.                  *)
C15_UnmatchedIndicatorOrphaned ==
    (Returned /\ ValidAndUnmatched /\ country = "US") =>
        /\ Len(result.standards) = 1
        /\ result.standards[1].indicator.name = elements[2].title
        /\ result.orphaned_elements = <<elements[3]>>

NotUnderReview(x) == x = None \/ ~x.needs_review

FromNonReview(tier) == tier = None \/ PlaceOf(tier.name) \in NonReview

FromNonReviewOnly(s) ==
    /\ FromNonReview(s.indicator)
    /\ FromNonReview(s.domain)
    /\ FromNonReview(s.strand)
    /\ FromNonReview(s.sub_strand)

(* C17: fragments with needs_review = true take no part. They are not       *)
(* counted in the depth nor in the first-occurrence ranks that decide the   *)
(* tags, they never are currentDomain, currentStrand or currentSubStrand,   *)
(* and they never are the indicator, domain, strand or sub_strand of a      *)
(* standard.                                                                *)
C17_NoPart ==
    /\ NotUnderReview(current_domain)
    /\ NotUnderReview(current_strand)
    /\ NotUnderReview(current_sub_strand)
    /\ \A k \in DOMAIN elements_with_canonical :
          ~elements_with_canonical[k].element.needs_review
    \* the tags are those of the non-review fragments taken alone
    /\ (Returned /\ elements_with_canonical # <<>>) =>
          LET tiers == Tiers
              places == InOrder(NonReview)
          IN  elements_with_canonical
                = [k \in DOMAIN places |->
                      [element |-> elements[places[k]],
                       canonical_level |-> tiers[places[k]]]]
    \* a standard, when it is appended and when it is returned
    /\ standards # <<>> => FromNonReviewOnly(standards[Len(standards)])
    /\ \A s \in ReturnedStandards : FromNonReviewOnly(s)

\* C17: no state of a call gives a fragment under review a part.
C17_ReviewTakesNoPart == []C17_NoPart

\* The first fragment is under review and carries the label of the accepted
\* indicator, which would otherwise have been the top label.
C17_Witness ==
    /\ Succeeded
    /\ Len(elements) = 3
    /\ elements[1].needs_review
    /\ elements[1].level = elements[3].level
    /\ Len(result.standards) = 1
    /\ result.standards[1].indicator.name = elements[3].title

(* C18: parse_hierarchy ends by returning a result, never by raising: every *)
(* step moves on towards the return, no step is ever missing before it, the *)
(* result has status success or error, and its error is non-null exactly    *)
(* when the status is error.                                                *)
Stage ==
    CASE pc = "filter" -> 3
      [] pc = "classify" -> 2
      [] pc = "loop" -> 1
      [] OTHER -> 0

C18_Returns ==
    /\ pc = "done" <=> Returned
    /\ pc \in {"filter", "classify", "loop", "done"}
    /\ pc = "filter" => ENABLED Filter
    /\ pc = "loop" =>
          /\ idx \in 1..(Len(elements_with_canonical) + 1)
          /\ ENABLED (OnDomain \/ OnStrand \/ OnSubStrand \/ OnIndicator \/ Finish)
    /\ Returned =>
          /\ result.status \in {SUCCESS, ERROR}
          /\ result.error # NoneStr <=> result.status = ERROR

C18_MovesOn ==
    \/ Stage' < Stage
    \/ Stage' = Stage /\ pc = "loop" /\ idx' > idx
                      /\ elements_with_canonical' = elements_with_canonical

C18_ReturnsNeverRaises ==
    []C18_Returns /\ [][C18_MovesOn]_vars

\* The call that meets an exception has returned.
C18_Witness ==
    /\ Returned
    /\ ~validate_country_code(country)
    /\ idx <= Len(elements_with_canonical)
    /\ elements_with_canonical[idx].canonical_level = INDICATOR
    /\ result.status = ERROR

(* C19: when building a NormalizedStandard raises, the result is an error   *)
(* whose message starts with 'Parsing failed: ', with no standards and the  *)
(* original unfiltered input, in order, as orphaned_elements.               *)
Faulted ==
    /\ Returned
    /\ \E k \in DOMAIN elements_with_canonical :
          elements_with_canonical[k].canonical_level = INDICATOR
    /\ idx <= Len(elements_with_canonical)

C19_ParsingFailed ==
    Faulted =>
        /\ result.status = ERROR
        /\ \E v \in Countries : result.error = "Parsing failed: " \o CountryError(v)
        /\ result.standards = <<>>
        /\ result.indicators = <<>>
        /\ result.orphaned_elements = elements

C19_Witness ==
    /\ Faulted
    /\ Len(elements) = 3
    /\ elements[1].needs_review
    /\ Len(valid_elements) = 2

(* C20: the status and the partition of the fragments into standards and    *)
(* orphaned_elements do not depend on the country: a call succeeds, with    *)
(* one standard for each Indicator-tagged fragment, whenever the non-review *)
(* fragments carry two levels or more.                                      *)
C20_CountryNotValidated ==
    Returned =>
        /\ result.status = SUCCESS <=> Parses
        /\ Parses =>
              /\ Len(result.standards) = Cardinality(Places(Tiers, INDICATOR))
              /\ result.orphaned_elements = <<>>

----
(* One call taken alone, as a function of its arguments *)

RECURSIVE Replay(_, _)
Replay(f, k) ==
    IF k > Len(f.elements_with_canonical)
    THEN ParseResult(f.standards,
                     [i \in DOMAIN f.standards |-> model_dump(f.standards[i])],
                     f.orphaned, SUCCESS, NoneStr)
    ELSE LET e == f.elements_with_canonical[k].element
             tier == f.elements_with_canonical[k].canonical_level
         IN  IF tier = DOMAIN_
             THEN Replay([f EXCEPT !.current_domain = e, !.current_strand = None,
                                   !.current_sub_strand = None], k + 1)
             ELSE IF tier = STRAND
             THEN Replay([f EXCEPT !.current_strand = e,
                                   !.current_sub_strand = None], k + 1)
             ELSE IF tier = SUB_STRAND
             THEN Replay([f EXCEPT !.current_sub_strand = e], k + 1)
             ELSE IF Unanchored(e, f.current_domain)
             THEN Replay([f EXCEPT !.orphaned = Append(@, e)], k + 1)
             ELSE IF validate_country_code(f.country)
             THEN Replay([f EXCEPT !.standards =
                            Append(@, BuildStandard(e, f.current_domain,
                                        f.current_strand, f.current_sub_strand,
                                        f.country, f.state, f.version_year))],
                         k + 1)
             ELSE ParsingFailed(f.elements, f.valid_elements, CountryError(f.country))

RunAlone(es, c, s, year) ==
    LET valid == valid_filter(es)
        ewc == assign_canonical_levels(valid)
    IN  IF valid = <<>> THEN NoValidElements(es, valid)
        ELSE IF Missing(by_canonical(ewc, DOMAIN_)) THEN NoDomains(es, valid)
        ELSE IF Missing(by_canonical(ewc, INDICATOR)) THEN NoIndicators(es, valid)
        ELSE Replay([NewFrame(es, c, s, year) EXCEPT
                        !.valid_elements = valid,
                        !.elements_with_canonical = ewc], 1)

ReturnedAsAlone(f) ==
    f.pc = "done" =>
        f.result = RunAlone(f.elements, f.country, f.state, f.version_year)

(* C21: when two calls of parse_hierarchy are interleaved step by step in   *)
(* any order, each returns exactly the result it returns when it runs       *)
(* alone.                                                                   *)
C21_CallsIndependent ==
    /\ ReturnedAsAlone(Frame)
    /\ other # None => ReturnedAsAlone(other)

\* Two calls on different documents that were both mid-run at a switch, and
\* have both returned standards.
C21_Witness ==
    /\ interleaved
    /\ pc = "done"
    /\ other.pc = "done"
    /\ elements # other.elements
    /\ result.standards # <<>>
    /\ other.result.standards # <<>>

\* The places of a sequence of names increase.
Increasing(places) ==
    \A k \in DOMAIN places : k > 1 => places[k - 1] < places[k]

(* C22: the tagged fragments are in document order, they are replayed one   *)
(* after the other from the first, the standards accepted so far are in     *)
(* document order of their indicator fragments, and so are the standards    *)
(* of a success result.                                                     *)
C22_InOrder ==
    /\ Increasing([k \in DOMAIN elements_with_canonical |->
                      PlaceOf(elements_with_canonical[k].element.title)])
    /\ Increasing([k \in DOMAIN standards |-> PlaceOf(standards[k].indicator.name)])
    /\ \A k \in DOMAIN standards :
          \E j \in 1..(idx - 1) :
              /\ j <= Len(elements_with_canonical)
              /\ elements_with_canonical[j].element.title = standards[k].indicator.name
    /\ Succeeded =>
          Increasing([k \in DOMAIN result.standards |->
                         PlaceOf(result.standards[k].indicator.name)])

\* A step that stays in the loop moves to the next tagged fragment, and the
\* tagged list is not touched.
C22_Replay ==
    (pc = "loop" /\ pc' = "loop") =>
        /\ idx' = idx + 1
        /\ elements_with_canonical' = elements_with_canonical

\* C22: the order holds in every state and every step of the loop replays
\* the next tagged fragment.
C22_OrderPreserved ==
    []C22_InOrder /\ [][C22_Replay]_vars

\* Three standards, with fragments of other tiers between their indicators.
C22_Witness ==
    /\ Succeeded
    /\ Len(elements) = 6
    /\ Len(result.standards) = 3
    /\ result.standards[1].indicator.name = TitleAt(2)
    /\ result.standards[2].indicator.name = TitleAt(4)
    /\ result.standards[3].indicator.name = TitleAt(6)

Beyond == {i \in NonReview : RankAt(i) >= 4}

Classified == pc = "loop" \/ (pc = "done" /\ valid_elements # <<>>)

\* A current-ancestor slot holds no fragment of the set.
NotOf(x, places) == x = None \/ PlaceOf(x.title) \notin places

StepOn(tier) ==
    /\ pc = "loop"
    /\ idx <= Len(elements_with_canonical)
    /\ elements_with_canonical[idx].canonical_level = tier
    /\ idx' = idx + 1

\* The standards accepted so far and the standards returned.
Accepted == {standards[k] : k \in DOMAIN standards} \cup ReturnedStandards

(* C25: a Strand-tagged fragment sets currentStrand to itself and clears    *)
(* currentSubStrand, and no standard carries a sub_strand whose fragment    *)
(* comes before its strand fragment in document order.                      *)
C25_StrandStep ==
    StepOn(STRAND) =>
        /\ current_strand' = element
        /\ current_sub_strand' = None

C25_SubStrandAfterStrand ==
    \A s \in Accepted :
        (s.strand # None /\ s.sub_strand # None) =>
            PlaceOf(s.strand.name) < PlaceOf(s.sub_strand.name)

\* C25: every step on a Strand-tagged fragment does so, and every state
\* keeps the sub_strand after the strand.
C25_StrandClearsSubStrand ==
    []C25_SubStrandAfterStrand /\ [][C25_StrandStep]_vars

\* A standard under a strand, with no sub_strand although a SubStrand-tagged
\* fragment lies between its domain and its strand.
C25_Witness ==
    /\ Succeeded
    /\ \E s \in ReturnedStandards :
          /\ s.strand # None
          /\ s.sub_strand = None
          /\ \E i \in (PlaceOf(s.domain.name) + 1)..(PlaceOf(s.strand.name) - 1) :
                Tagged(i, SUB_STRAND)

\* The loop stands on a fragment of the given tier: the next step is the step
\* of parser.py:365-433 on it.
At(tier) ==
    /\ pc = "loop"
    /\ idx <= Len(elements_with_canonical)
    /\ elements_with_canonical[idx].canonical_level = tier

(* C26: the step on a Strand-tagged fragment leaves currentDomain           *)
(* unchanged; on a SubStrand-tagged fragment, currentDomain and             *)
(* currentStrand; on an Indicator-tagged fragment, all three slots; and the *)
(* steps on Domain-, Strand- and SubStrand-tagged fragments leave the       *)
(* accepted and orphaned accumulators unchanged.                            *)
C26_Frame ==
    /\ At(STRAND) => current_domain' = current_domain
    /\ At(SUB_STRAND) =>
          /\ current_domain' = current_domain
          /\ current_strand' = current_strand
    /\ At(INDICATOR) =>
          /\ current_domain' = current_domain
          /\ current_strand' = current_strand
          /\ current_sub_strand' = current_sub_strand
    /\ (At(DOMAIN_) \/ At(STRAND) \/ At(SUB_STRAND)) =>
          /\ standards' = standards
          /\ orphaned' = orphaned

\* C26: every step of a call keeps these frame conditions.
C26_FrameConditions == [][C26_Frame]_vars

\* The step on a SubStrand-tagged fragment has just been taken, with a domain,
\* a strand and an accepted standard to keep.
C26_Witness ==
    /\ pc = "loop"
    /\ idx > 1
    /\ elements_with_canonical[idx - 1].canonical_level = SUB_STRAND
    /\ current_sub_strand = elements_with_canonical[idx - 1].element
    /\ current_domain # None
    /\ current_strand # None
    /\ standards # <<>>

(* C27: the 'No domain elements found' result is never returned: whenever   *)
(* the filtered sequence is not empty its first fragment is tagged Domain,  *)
(* at every depth, so some fragment is tagged Domain.                       *)
C27_NoDomainUnreachable ==
    /\ Returned => result.error # "No domain elements found"
    /\ Classified =>
          /\ elements_with_canonical[1].element = valid_elements[1]
          /\ elements_with_canonical[1].canonical_level = DOMAIN_
          /\ ~Missing(by_canonical(elements_with_canonical, DOMAIN_))

\* Depth 1: a fragment under review, then fragments labelled indicator and
\* tagged Domain.
C27_Witness ==
    /\ Returned
    /\ Depth = 1
    /\ Len(elements) = 3
    /\ elements[1].needs_review
    /\ elements[2].level = INDICATOR
    /\ elements_with_canonical[1].element = elements[2]
    /\ elements_with_canonical[1].canonical_level = DOMAIN_

C29_NoIndicatorIffOneLevel ==
    Returned =>
        /\ result.error = "No indicator elements found"
              <=> (NonReview # {} /\ Depth = 1)
        /\ normalize_hierarchy_mapping(1) = normalize_hierarchy_mapping(4)
        /\ normalize_hierarchy_mapping(1)[0] = DOMAIN_
        /\ \A d \in 2..MaxDeepLen :
              \E r \in 0..(d - 1) :
                  /\ Has(normalize_hierarchy_mapping(d), r)
                  /\ normalize_hierarchy_mapping(d)[r] = INDICATOR

\* Five fragments of one label.
C29_Witness ==
    /\ Returned
    /\ result.error = "No indicator elements found"
    /\ Len(elements) = 5
    /\ Depth = 1
    /\ Len(result.orphaned_elements) = 5

(* C30: on a success result every Indicator-tagged fragment of the filtered *)
(* sequence is exactly once in exactly one of standards (as the indicator   *)
(* of a record) and orphaned_elements, no fragment of another tier is an    *)
(* entry of either list, and len(standards) + len(orphaned_elements) is the *)
(* number of Indicator-tagged fragments.                                    *)
C30_AccountingOnSuccess ==
    Succeeded =>
        LET indicators == Places(Tiers, INDICATOR)
            accepted == [k \in DOMAIN result.standards |->
                            PlaceOf(result.standards[k].indicator.name)]
            orphans == [k \in DOMAIN result.orphaned_elements |->
                            PlaceOf(result.orphaned_elements[k].title)]
        IN  /\ {accepted[k] : k \in DOMAIN accepted}
                  \cup {orphans[k] : k \in DOMAIN orphans} = indicators
            /\ Len(accepted) + Len(orphans) = Cardinality(indicators)
            /\ \A k \in DOMAIN accepted :
                  result.standards[k].indicator.code = elements[accepted[k]].code
            /\ \A k \in DOMAIN orphans :
                  result.orphaned_elements[k] = elements[orphans[k]]

\* Four tiers in six fragments, two of them Indicator-tagged.
C30_Witness ==
    /\ Succeeded
    /\ Depth = 4
    /\ Len(elements) = 6
    /\ Cardinality(Places(Tiers, INDICATOR)) = 2
    /\ Len(result.standards) = 2

====
